---- MODULE Spec2Model ----
\* Model of scripting/get_game_data.py: a pipeline that finds the "game"
\* directories of a source root, copies them under stripped names into a target
\* directory, writes metadata.json and runs `go build` on every *.go file.
EXTENDS Integers, Sequences, FiniteSets, TLC

\* ------------------------------------------------------------------ bounds
MaxTokens == 3      \* name = concatenation of at most MaxTokens tokens
MaxChildren == 3    \* entries of the source root in one run
MaxRuns == 2        \* runs of main against the same target
MaxDepth == 3       \* depth of the nested directory chain in the target
MaxPairs == 2       \* (source, name) pairs handed to create_new_dirs

\* ------------------------------------------------------- names as strings
\* A name is a sequence of one-character strings.
Lower(c) ==
  CASE c = "G" -> "g" [] c = "A" -> "a" [] c = "M" -> "m" [] c = "E" -> "e"
    [] OTHER -> c

\* to_strip as main passes it (line 173)
TO_STRIP == <<"g", "a", "m", "e">>

\* DIR_PATTERN = "*[g|G][a|A][m|M][e|E]*": four bracket classes between two
\* stars; inside brackets the bar is an ordinary member of the class.
DIR_PATTERN == << {"g", "|", "G"}, {"a", "|", "A"}, {"m", "|", "M"}, {"e", "|", "E"} >>

\* the pattern's classes match name at position i
ClassesAt(name, i) ==
  /\ i >= 1
  /\ i + Len(DIR_PATTERN) - 1 <= Len(name)
  /\ \A k \in 1..Len(DIR_PATTERN) : name[i + k - 1] \in DIR_PATTERN[k]

\* source_dir.glob(DIR_PATTERN) accepts the name
GlobMatch(name) == \E i \in 1..Len(name) : ClassesAt(name, i)

\* re with IGNORECASE: to_strip matches name at position i
MatchAt(name, to_strip, i) ==
  /\ i >= 1
  /\ i + Len(to_strip) - 1 <= Len(name)
  /\ \A k \in 1..Len(to_strip) : Lower(name[i + k - 1]) = Lower(to_strip[k])

MatchPositions(name, to_strip) ==
  {i \in 1..Len(name) : MatchAt(name, to_strip, i)}

Min(S) == CHOOSE x \in S : \A y \in S : x <= y

\* re.findall(to_strip, dirname, flags=re.IGNORECASE): the matches, leftmost
\* first, non-overlapping, each in the letter-case found in dirname
RECURSIVE FindAllFrom(_, _, _)
FindAllFrom(name, to_strip, from) ==
  LET later == {i \in MatchPositions(name, to_strip) : i >= from}
  IN IF later = {} THEN << >>
     ELSE LET i == Min(later)
          IN << SubSeq(name, i, i + Len(to_strip) - 1) >>
               \o FindAllFrom(name, to_strip, i + Len(to_strip))

FindAll(name, to_strip) == FindAllFrom(name, to_strip, 1)

IsPrefixAt(s, old, i) ==
  /\ i + Len(old) - 1 <= Len(s)
  /\ SubSeq(s, i, i + Len(old) - 1) = old

\* a plausible slip: only the first occurrence is dropped (count=1)
RECURSIVE StrReplaceFirstOnly(_, _)
StrReplaceFirstOnly(s, old) ==
  IF Len(s) < Len(old) THEN s
  ELSE IF IsPrefixAt(s, old, 1) THEN SubSeq(s, Len(old) + 1, Len(s))
  ELSE << s[1] >> \o StrReplaceFirstOnly(Tail(s), old)

\* str.replace(old, ""): every non-overlapping exact occurrence of old, scanned
\* left to right, is dropped
RECURSIVE StrReplace(_, _)
StrReplace(s, old) ==
  IF Len(s) < Len(old) \/ Len(old) = 0 THEN s
  ELSE IF IsPrefixAt(s, old, 1)
       THEN StrReplace(SubSeq(s, Len(old) + 1, Len(s)), old)
       ELSE << s[1] >> \o StrReplace(Tail(s), old)

\* lines 86-88 raise IndexError when findall returns the empty list
RaisesIndexError(dirname, to_strip) == FindAll(dirname, to_strip) = << >>

\* lines 86-88: dirname.replace(re.findall(...)[0], "")
NewDirname(dirname, to_strip) ==
  StrReplace(dirname, FindAll(dirname, to_strip)[1])

\* ------------------------------------------------------ directory trees
\* A tree maps each path below its root (and the root, << >>) to what is there:
\* "none", "dir", or the content of a file. The paths are a chain of nested
\* directories named d and one top-level main.go.
Contents == {"a", "b"}
Chain(k) == [i \in 1..k |-> "d"]
GoFile == << "main.go" >>
AllPaths == {Chain(k) : k \in 0..MaxDepth} \cup {GoFile}
Parent(p) == SubSeq(p, 1, Len(p) - 1)
IsFile(v) == v \in Contents

WellFormed(t, depth) ==
  /\ \A p \in AllPaths \ {<< >>} : t[p] # "none" => t[Parent(p)] = "dir"
  /\ \A p \in AllPaths : t[p] = "dir" => (p # GoFile /\ Len(p) < depth)
  /\ \A p \in AllPaths : Len(p) > depth => t[p] = "none"

\* what can be at a path of the target root: nothing, a file, a directory tree
DestTrees ==
  {t \in [AllPaths -> Contents \cup {"none", "dir"}] : WellFormed(t, MaxDepth)}

\* a source directory: its root is a directory, one level shallower
SourceTrees ==
  {t \in DestTrees : t[<< >>] = "dir" /\ WellFormed(t, MaxDepth - 1)}

Absent == [p \in AllPaths |-> "none"]

\* shutil.copy2(src, dst): a dst that is a directory receives the file under
\* the source's base name; writing onto a directory is an OSError
Copy2(content, dst, p) ==
  IF dst[p] # "dir" THEN [fs |-> [dst EXCEPT ![p] = content], err |-> FALSE]
  ELSE LET inside == Append(p, p[Len(p)])
       IN IF inside \notin AllPaths \/ dst[inside] = "dir"
          THEN [fs |-> dst, err |-> TRUE]
          ELSE [fs |-> [dst EXCEPT ![inside] = content], err |-> FALSE]

RECURSIVE CopyDir(_, _, _)
RECURSIVE CopyEntries(_, _, _)

\* _copytree's loop: each entry is copied, an OSError is collected and the
\* loop goes on; the collected errors are raised once all entries are done
CopyEntries(src, acc, todo) ==
  IF todo = {} THEN acc
  ELSE LET c == CHOOSE x \in todo : TRUE
           r == IF src[c] = "dir" THEN CopyDir(src, acc.fs, c)
                ELSE Copy2(src[c], acc.fs, c)
       IN CopyEntries(src, [fs |-> r.fs, err |-> acc.err \/ r.err], todo \ {c})

\* shutil.copytree(src, dst, dirs_exist_ok=True) below path p:
\* os.makedirs(dst, exist_ok=True) fails on a file, else the entries are merged
CopyDir(src, dst, p) ==
  IF IsFile(dst[p]) THEN [fs |-> dst, err |-> TRUE]
  ELSE CopyEntries(src, [fs |-> [dst EXCEPT ![p] = "dir"], err |-> FALSE],
                   {c \in AllPaths \ {<< >>} : Parent(c) = p /\ src[c] # "none"})

\* a plausible slip: like `cp -r`, an existing destination directory receives
\* the source as a new subdirectory instead of being merged with it
CopyNested(source, dst) ==
  IF dst[<< >>] # "dir" THEN CopyDir(source, dst, << >>)
  ELSE LET moved == [p \in AllPaths |->
                       IF p = << >> THEN "dir"
                       ELSE IF p = GoFile THEN "none"
                       ELSE source[Parent(p)]]
       IN CopyDir(moved, dst, << >>)

\* lines 94-104
copy_and_overwrite(source, dst) == CopyDir(source, dst, << >>)

\* ------------------------------------------------------------ the state
VARIABLES
  children,       \* the source root's entries, in enumeration order
  srcExists,      \* the source directory exists
  target,         \* the target path: "absent", "noparent", "file" or "dir"
  dest,           \* the target root's directories, by name
  manifest,       \* metadata.json of the target root
  cwd,            \* the process working directory
  pc,             \* where main is
  failedIn,       \* the function whose exception ended the run
  game_dirs,      \* main's game_dirs
  new_game_dirs,  \* main's new_game_dirs
  idx,            \* position of the loop of create_new_dirs / compile_code_files
  files,          \* what path.rglob(FILE_EXTENSION) yields, in order
  attempted,      \* the build commands run so far, with their outcomes
  savedCwd,       \* compile_code_files' local cwd
  runs,           \* runs started so far
  written,        \* the name lists handed to json.dump, oldest first
  target0,        \* target, dest and manifest when the current run started
  dest0,
  manifest0,
  copyErr,        \* the pair whose copy raised in the current run, 0 if none
  pass,           \* materializing twice: which materialization is running
  once            \* materializing twice: the destination after the first

vars ==
  << children, srcExists, target, dest, manifest, cwd, pc, failedIn, game_dirs,
     new_game_dirs, idx, files, attempted, savedCwd, runs, written, target0,
     dest0, manifest0, copyErr, pass, once >>

fsVars == << children, srcExists, target, dest, manifest >>
histVars == << runs, written, target0, dest0, manifest0, copyErr >>
twiceVars == << pass, once >>
buildVars == << files, attempted, savedCwd >>

\* the directory the process is launched from
LaunchDir == << "." >>

NoManifest == [exists |-> FALSE, game_names |-> << >>, number_of_games |-> 0]

\* ------------------------------------------------------- source entries
Entry(name, isdir, tree) == [name |-> name, isdir |-> isdir, tree |-> tree]

\* a directory holding main.go with the given content
GoTree(c) == [p \in AllPaths |-> IF p = << >> THEN "dir" ELSE IF p = GoFile THEN c ELSE "none"]

\* the entries a source root is populated from in the pipeline runs
RunPool ==
  { Entry(<< "G", "a", "m", "e", "1" >>, TRUE, GoTree("a")),
    Entry(<< "2", "G", "A", "M", "E" >>, TRUE, GoTree("b")),
    Entry(<< "g", "a", "m", "e", "3" >>, TRUE, GoTree("a")),
    Entry(<< "g", "|", "m", "e" >>, TRUE, GoTree("b")) }

\* sequences without repetition of at most n elements of S
RECURSIVE Listings(_, _)
Listings(S, n) ==
  IF n = 0 THEN {<< >>}
  ELSE LET shorter == Listings(S, n - 1)
       IN shorter \cup {Append(l, e) : l \in shorter, e \in S} 

Distinct(l) == \A i, j \in 1..Len(l) : i # j => l[i] # l[j]

RunListings == {l \in Listings(RunPool, MaxChildren) : Distinct(l)}

\* the names a directory of the target root can have
DestNames ==
  {NewDirname(e.name, TO_STRIP) :
     e \in {x \in RunPool : ~RaisesIndexError(x.name, TO_STRIP)}}

EmptyDest == [n \in DestNames |-> Absent]

\* ------------------------------------------------------- the functions
\* a plausible slip: resolve() without strict, which never raises
ResolveLenient(exists) == FALSE

\* line 26: pathlib.Path(dir_file).resolve(dir_file) passes the (non-empty) path
\* as resolve's `strict`, so a path that does not exist raises FileNotFoundError
ResolveRaises(exists) == ~exists

\* lines 42-47: the glob's matches that are directories; a source root that
\* does not exist yields nothing
find_all_game_paths(exists, listing) ==
  IF exists THEN SelectSeq(listing, LAMBDA e : GlobMatch(e.name) /\ e.isdir)
  ELSE << >>

\* lines 80-91
get_names_from_paths(paths, to_strip) ==
  [i \in 1..Len(paths) |-> NewDirname(paths[i].name, to_strip)]

NamesRaise(paths, to_strip) ==
  \E i \in 1..Len(paths) : RaisesIndexError(paths[i].name, to_strip)

\* a plausible slip: mkdir(parents=True, exist_ok=True)
MkdirParents(t) ==
  IF t = "file" THEN [target |-> t, err |-> TRUE]
  ELSE [target |-> "dir", err |-> FALSE]

\* line 62: pathlib.Path(dirname).mkdir(exist_ok=True), parents left False
Mkdir(t) ==
  CASE t = "dir" -> [target |-> "dir", err |-> FALSE]
    [] t = "absent" -> [target |-> "dir", err |-> FALSE]
    [] OTHER -> [target |-> t, err |-> TRUE]

\* lines 121-124, one iteration of the loop
CreateNewDirsStep(d, source, new_dir) ==
  LET r == copy_and_overwrite(source.tree, d[new_dir])
  IN [dest |-> [d EXCEPT ![new_dir] = r.fs], err |-> r.err]

\* an I/O failure of the environment (permissions, disk full) stops a copy
\* part-way: nothing written, only the directory made, or all but the last step
PartialCopies(d, source, new_dir) ==
  LET made == IF IsFile(d[new_dir][<< >>]) THEN d[new_dir]
              ELSE [d[new_dir] EXCEPT ![<< >>] = "dir"]
  IN {[dest |-> [d EXCEPT ![new_dir] = t], err |-> TRUE] :
        t \in {d[new_dir], made, copy_and_overwrite(source.tree, d[new_dir]).fs}}

\* a plausible slip: the exception of a failed copy is swallowed
CopyFailureIgnored(err) == FALSE

\* lines 121-124: an exception of copytree leaves create_new_dirs and main
CopyAborts(err) == err

\* a plausible slip: the new names are merged into the manifest found
MergeMetadata(prior, dirs) ==
  [exists |-> TRUE, game_names |-> prior.game_names \o dirs,
   number_of_games |-> Len(dirs)]

\* lines 136-141: open(mode="w") truncates, json.dump writes the new object
make_json_metadata_file(prior, dirs) ==
  [exists |-> TRUE, game_names |-> dirs, number_of_games |-> Len(dirs)]

\* line 152: the *.go files below the target root
Matched(d) == {n \in DOMAIN d : IsFile(d[n][GoFile])}

Enumerations(S) ==
  {l \in Listings(S, Cardinality(S)) : Len(l) = Cardinality(S) /\ Distinct(l)}

\* what running the build command can come to
Outcomes == {"exit0", "exit1", "nolaunch"}

\* a plausible slip: run(..., check=True), which raises on a non-zero status
RunChecked(outcome) == outcome # "exit0"

\* line 157: subprocess.run without check raises only when the command
\* cannot be started
RunRaises(outcome) == outcome = "nolaunch"

\* ---------------------------------------------------------- main's steps
Fail(where) == /\ pc' = "failed" /\ failedIn' = where

\* line 171: source_path = get_absolute_path(source)
GetAbsolutePath ==
  /\ pc = "resolve"
  /\ IF ResolveRaises(srcExists) THEN Fail("get_absolute_path")
     ELSE pc' = "find" /\ failedIn' = failedIn
  /\ UNCHANGED << fsVars, cwd, game_dirs, new_game_dirs, idx, buildVars,
                  histVars, twiceVars >>

\* line 172: game_dirs = find_all_game_paths(source_path)
FindAllGamePaths ==
  /\ pc = "find"
  /\ game_dirs' = find_all_game_paths(srcExists, children)
  /\ pc' = "names"
  /\ UNCHANGED << fsVars, cwd, failedIn, new_game_dirs, idx, buildVars,
                  histVars, twiceVars >>

\* line 173: new_game_dirs = get_names_from_paths(game_dirs, "game")
GetNamesFromPaths ==
  /\ pc = "names"
  /\ IF NamesRaise(game_dirs, TO_STRIP)
     THEN Fail("get_names_from_paths") /\ new_game_dirs' = new_game_dirs
     ELSE /\ new_game_dirs' = get_names_from_paths(game_dirs, TO_STRIP)
          /\ pc' = "setup"
          /\ failedIn' = failedIn
  /\ UNCHANGED << fsVars, cwd, game_dirs, idx, buildVars, histVars, twiceVars >>

\* line 174: target_path = setup_target_dir(target)
SetupTargetDir ==
  /\ pc = "setup"
  /\ LET r == Mkdir(target)
     IN /\ target' = r.target
        /\ IF r.err THEN Fail("setup_target_dir") /\ idx' = idx
           ELSE /\ pc' = IF Len(game_dirs) = 0 THEN "metadata" ELSE "copy"
                /\ idx' = 1
                /\ failedIn' = failedIn
  /\ UNCHANGED << children, srcExists, dest, manifest, cwd, game_dirs,
                  new_game_dirs, buildVars, histVars, twiceVars >>

\* lines 176-178: one pair of create_new_dirs' loop
CreateNewDirs ==
  /\ pc = "copy"
  /\ \E r \in {CreateNewDirsStep(dest, game_dirs[idx], new_game_dirs[idx])}
            \cup PartialCopies(dest, game_dirs[idx], new_game_dirs[idx]) :
       /\ dest' = r.dest
       /\ copyErr' = IF r.err /\ copyErr = 0 THEN idx ELSE copyErr
       /\ IF CopyAborts(r.err) THEN Fail("create_new_dirs") /\ idx' = idx
          ELSE /\ idx' = idx + 1
               /\ pc' = IF idx = Len(game_dirs) THEN "metadata" ELSE "copy"
               /\ failedIn' = failedIn
  /\ UNCHANGED << children, srcExists, target, manifest, cwd, game_dirs,
                  new_game_dirs, buildVars, runs, written, target0, dest0,
                  manifest0, twiceVars >>

\* line 179: make_json_metadata_file(target_path, new_game_dirs)
MakeJsonMetadataFile ==
  /\ pc = "metadata"
  /\ manifest' = make_json_metadata_file(manifest, new_game_dirs)
  /\ written' = Append(written, new_game_dirs)
  /\ pc' = "rglob"
  /\ UNCHANGED << children, srcExists, target, dest, cwd, failedIn, game_dirs,
                  new_game_dirs, idx, buildVars, runs, target0, dest0,
                  manifest0, copyErr, twiceVars >>

\* line 152: the loop of compile_code_files starts over path.rglob("*.go")
CompileCodeFiles ==
  /\ pc = "rglob"
  /\ \E l \in Enumerations(Matched(dest)) :
       /\ files' = l
       /\ pc' = IF l = << >> THEN "done" ELSE "chdir"
  /\ idx' = 1
  /\ UNCHANGED << fsVars, cwd, failedIn, game_dirs, new_game_dirs, attempted,
                  savedCwd, histVars, twiceVars >>

\* lines 153-154: cwd = pathlib.Path().absolute(); os.chdir(file.parent)
ChdirToFile ==
  /\ pc = "chdir"
  /\ savedCwd' = cwd
  /\ cwd' = files[idx]
  /\ pc' = "run"
  /\ UNCHANGED << fsVars, failedIn, game_dirs, new_game_dirs, idx, files,
                  attempted, histVars, twiceVars >>

\* lines 155-158: run(command, ...); os.chdir(cwd)
RunBuild ==
  /\ pc = "run"
  /\ \E outcome \in Outcomes :
       /\ attempted' = Append(attempted, [file |-> files[idx], outcome |-> outcome])
       /\ IF RunRaises(outcome)
          THEN Fail("compile_code_files") /\ UNCHANGED << cwd, idx >>
          ELSE /\ cwd' = savedCwd
               /\ idx' = idx + 1
               /\ pc' = IF idx = Len(files) THEN "done" ELSE "chdir"
               /\ failedIn' = failedIn
  /\ UNCHANGED << fsVars, game_dirs, new_game_dirs, files, savedCwd, histVars,
                  twiceVars >>

\* main returns or its exception ends the process: the locals are gone, the
\* target stays as the run left it
Exit ==
  /\ pc \in {"done", "failed"}
  /\ pc' = "exited"
  /\ failedIn' = "none"
  /\ children' = << >>
  /\ srcExists' = TRUE
  /\ cwd' = LaunchDir
  /\ game_dirs' = << >>
  /\ new_game_dirs' = << >>
  /\ idx' = 1
  /\ files' = << >>
  /\ attempted' = << >>
  /\ savedCwd' = LaunchDir
  /\ target0' = target
  /\ dest0' = dest
  /\ manifest0' = manifest
  /\ copyErr' = 0
  /\ UNCHANGED << target, dest, manifest, runs, written, twiceVars >>

\* the program is run again, as a new process, on whatever the source root
\* holds by then and on the target the earlier runs left
NewRun ==
  /\ pc = "exited"
  /\ runs < MaxRuns
  /\ runs' = runs + 1
  /\ children' \in RunListings
  /\ srcExists' \in BOOLEAN
  /\ pc' = "resolve"
  /\ UNCHANGED << target, dest, manifest, cwd, failedIn, game_dirs,
                  new_game_dirs, idx, buildVars, written, target0, dest0,
                  manifest0, copyErr, twiceVars >>

Init ==
  /\ children \in RunListings
  /\ srcExists \in BOOLEAN
  /\ target \in {"absent", "noparent", "file", "dir"}
  /\ dest = EmptyDest
  /\ manifest = NoManifest
  /\ cwd = LaunchDir
  /\ pc = "resolve"
  /\ failedIn = "none"
  /\ game_dirs = << >>
  /\ new_game_dirs = << >>
  /\ idx = 1
  /\ files = << >>
  /\ attempted = << >>
  /\ savedCwd = LaunchDir
  /\ runs = 1
  /\ written = << >>
  /\ target0 = target
  /\ dest0 = dest
  /\ manifest0 = manifest
  /\ copyErr = 0
  /\ pass = 0
  /\ once = dest

Next ==
  \/ GetAbsolutePath
  \/ FindAllGamePaths
  \/ GetNamesFromPaths
  \/ SetupTargetDir
  \/ CreateNewDirs
  \/ MakeJsonMetadataFile
  \/ CompileCodeFiles
  \/ ChdirToFile
  \/ RunBuild
  \/ Exit
  \/ NewRun

Spec == Init /\ [][Next]_vars

\* ------------------------------------------- the finder and the transformer
\* on names drawn from all concatenations of a few tokens
Tokens ==
  { << "g", "a", "m", "e" >>, << "G", "a", "m", "e" >>, << "G", "A", "M", "E" >>,
    << "g", "|", "m", "e" >>, << "g", "a" >>, << "m", "e" >>, << "x" >> }

RECURSIVE TokenNames(_)
TokenNames(n) ==
  IF n = 0 THEN {<< >>}
  ELSE LET shorter == TokenNames(n - 1)
       IN shorter \cup {s \o t : s \in shorter, t \in Tokens}

SampleNames == TokenNames(MaxTokens) \ {<< >>}

InitNames ==
  /\ \E name \in SampleNames, isdir \in BOOLEAN :
       children = << Entry(name, isdir, IF isdir THEN GoTree("a") ELSE Absent) >>
  /\ srcExists = TRUE
  /\ target = "dir"
  /\ dest = EmptyDest
  /\ manifest = NoManifest
  /\ cwd = LaunchDir
  /\ pc = "find"
  /\ failedIn = "none"
  /\ game_dirs = << >>
  /\ new_game_dirs = << >>
  /\ idx = 1
  /\ files = << >>
  /\ attempted = << >>
  /\ savedCwd = LaunchDir
  /\ runs = 1
  /\ written = << >>
  /\ target0 = target
  /\ dest0 = dest
  /\ manifest0 = manifest
  /\ copyErr = 0
  /\ pass = 0
  /\ once = dest

NextNames == FindAllGamePaths \/ GetNamesFromPaths

SpecNames == InitNames /\ [][NextNames]_vars

\* ------------------------------------------------- materializing twice
TwiceNames == {<< "1" >>, << "2" >>}

\* the sources differ in their chain of directories, the initial destination
\* may hold a main.go no source has
TwiceSources == {t \in SourceTrees : t[GoFile] = "none"}
TwiceDests == {t \in DestTrees : t[GoFile] # "b"}

TwicePairs ==
  UNION {[1..n -> TwiceSources \X TwiceNames] : n \in 1..MaxPairs}

\* create_new_dirs over the whole zip, stopped by the first exception
Materialize ==
  /\ pc = "twice"
  /\ LET r == CreateNewDirsStep(dest, game_dirs[idx], new_game_dirs[idx])
     IN /\ dest' = r.dest
        /\ idx' = idx + 1
        /\ pc' = IF CopyAborts(r.err) \/ idx = Len(game_dirs)
                 THEN "twice_end" ELSE "twice"
  /\ UNCHANGED << children, srcExists, target, manifest, cwd, failedIn,
                  game_dirs, new_game_dirs, buildVars, histVars, twiceVars >>

\* the same pairs are materialized a second time, the sources unchanged
MaterializeAgain ==
  /\ pc = "twice_end"
  /\ pass = 1
  /\ once' = dest
  /\ pass' = 2
  /\ idx' = 1
  /\ pc' = "twice"
  /\ UNCHANGED << fsVars, cwd, failedIn, game_dirs, new_game_dirs, buildVars,
                  histVars >>

InitTwice ==
  /\ \E pairs \in TwicePairs :
       /\ pairs[1][2] = << "1" >>
       /\ game_dirs = [i \in 1..Len(pairs) |-> Entry(<< >>, TRUE, pairs[i][1])]
       /\ new_game_dirs = [i \in 1..Len(pairs) |-> pairs[i][2]]
  /\ \E t \in TwiceDests :
       dest = [n \in DestNames |-> IF n = << "1" >> THEN t ELSE Absent]
  /\ children = << >>
  /\ srcExists = TRUE
  /\ target = "dir"
  /\ manifest = NoManifest
  /\ cwd = LaunchDir
  /\ pc = "twice"
  /\ failedIn = "none"
  /\ idx = 1
  /\ files = << >>
  /\ attempted = << >>
  /\ savedCwd = LaunchDir
  /\ runs = 1
  /\ written = << >>
  /\ target0 = target
  /\ dest0 = dest
  /\ manifest0 = manifest
  /\ copyErr = 0
  /\ pass = 1
  /\ once = dest

NextTwice == Materialize \/ MaterializeAgain

SpecTwice == InitTwice /\ [][NextTwice]_vars

\* ================================================================ claims

\* ---- Build Runner ----
InRunner == pc \in {"chdir", "run"}

\* C1: every matched file is attempted exactly once, in enumeration order, and
\* a non-zero exit status never stops the scan: the attempts are always a
\* prefix of the enumeration, a run that ends normally has attempted them all,
\* and after an attempt that exited (with any status) the runner is still
\* scanning unless that was the last file.
C1_ScanNotStoppedByExitStatus ==
  /\ Len(attempted) <= Len(files)
  /\ \A k \in 1..Len(attempted) : attempted[k].file = files[k]
  /\ InRunner => Len(attempted) = idx - 1
  /\ pc = "done" => Len(attempted) = Len(files)
  /\ \A k \in 1..Len(attempted) :
       attempted[k].outcome \in {"exit0", "exit1"} =>
         \/ Len(attempted) > k
         \/ InRunner
         \/ (k = Len(files) /\ pc = "done")

\* three matched files, the second build failed, all three were attempted
C1_Witness ==
  /\ pc = "done"
  /\ Len(files) = 3
  /\ Len(attempted) = 3
  /\ attempted[2].outcome = "exit1"

\* C2: a build command that cannot be launched is ignored: the run does not
\* end with an error and every remaining matched file is still attempted.
C2_LaunchFailureNonFatal ==
  /\ failedIn # "compile_code_files"
  /\ pc = "done" => Len(attempted) = Len(files)
  /\ \A k \in 1..Len(attempted) :
       attempted[k].outcome = "nolaunch" => pc # "failed"

\* C3: while a build command runs the working directory is the file's
\* directory, and whenever control has left the Build Runner, whatever the
\* outcome of the build command, it is the directory the runner was entered in.
C3_WorkingDirectoryRestored ==
  /\ pc = "run" => cwd = files[idx]
  /\ (pc \in {"done", "failed"} /\ attempted # << >>) => cwd = LaunchDir

\* ---- Name Transformer ----
RemoveFirstMatch(name, to_strip) ==
  LET i == Min(MatchPositions(name, to_strip))
  IN SubSeq(name, 1, i - 1) \o SubSeq(name, i + Len(to_strip), Len(name))

Transformed == pc = "setup"

\* C4 as claimed: the new name is the old one with only the first
\* case-insensitive occurrence of the pattern removed.
C4_OnlyFirstOccurrenceRemoved ==
  Transformed =>
    \A i \in 1..Len(game_dirs) :
      new_game_dirs[i] = RemoveFirstMatch(game_dirs[i].name, TO_STRIP)

\* the exact occurrences of m in name, scanned left to right without overlap
RECURSIVE ExactStarts(_, _, _)
ExactStarts(name, m, from) ==
  LET later == {i \in from..Len(name) : IsPrefixAt(name, m, i)}
  IN IF later = {} THEN {}
     ELSE {Min(later)} \cup ExactStarts(name, m, Min(later) + Len(m))

\* name without the characters at the positions in gone
RECURSIVE Without(_, _, _)
Without(name, gone, i) ==
  IF i > Len(name) THEN << >>
  ELSE (IF i \in gone THEN << >> ELSE << name[i] >>) \o Without(name, gone, i + 1)

\* C4 amended: the new name is the old one without the first case-insensitive
\* occurrence of the pattern and without every further occurrence of that same
\* text in that same letter-case; an occurrence in another letter-case stays,
\* and when the matched text occurs once only the first occurrence is removed.
C4_FirstMatchTextRemovedEverywhere ==
  Transformed =>
    \A i \in 1..Len(game_dirs) :
      LET name == game_dirs[i].name
          first == Min(MatchPositions(name, TO_STRIP))
          m == SubSeq(name, first, first + Len(TO_STRIP) - 1)
          starts == ExactStarts(name, m, 1)
          gone == UNION {s..(s + Len(m) - 1) : s \in starts}
      IN /\ first \in starts
         /\ \A s \in starts : s >= first
         /\ new_game_dirs[i] = Without(name, gone, 1)
         /\ Len(new_game_dirs[i]) = Len(name) - Len(m) * Cardinality(starts)
         /\ Cardinality(starts) = 1 =>
              new_game_dirs[i] = RemoveFirstMatch(name, TO_STRIP)

\* a name holding the matched text twice has been transformed: both are gone
C4_Witness ==
  /\ Transformed
  /\ Len(game_dirs) = 1
  /\ LET name == game_dirs[1].name
     IN /\ Len(FindAll(name, TO_STRIP)) = 2
        /\ FindAll(name, TO_STRIP)[1] = FindAll(name, TO_STRIP)[2]
        /\ Len(new_game_dirs[1]) = Len(name) - 2 * Len(TO_STRIP)

\* ---- Game Directory Finder ----
\* C5: the finder returns only directories whose name contains "game" in any
\* letter-case, so the Name Transformer accepts every name it returns.
C5_FinderReturnsOnlyGameDirs ==
  /\ \A i \in 1..Len(game_dirs) :
       /\ game_dirs[i].isdir
       /\ MatchPositions(game_dirs[i].name, TO_STRIP) # {}
  /\ failedIn # "get_names_from_paths"

\* ---- NotFoundError ----
NoOutput ==
  /\ target = target0
  /\ dest = dest0
  /\ manifest = manifest0
  /\ files = << >>
  /\ attempted = << >>

SetupReturned == pc \in {"copy", "metadata", "rglob", "chdir", "run", "done"}
SetupActed ==
  \/ failedIn \in {"setup_target_dir", "create_new_dirs", "compile_code_files"}
  \/ SetupReturned

\* C7 as claimed: absent (parents missing or not) or present, the directory
\* exists after the call and the call raised nothing.
C7_CreatedWithParents ==
  (SetupActed /\ target0 \in {"absent", "noparent", "dir"}) =>
    /\ target = "dir"
    /\ failedIn # "setup_target_dir"

\* C7 amended: a directory that is absent while its parent exists is created,
\* one that is present is left as it is without error, and in both cases it
\* exists afterwards and its path is returned; missing parents are not
\* created: the call then raises and the path stays absent.
C7_CreatedUnlessParentMissing ==
  SetupActed =>
    /\ target0 \in {"absent", "dir"} =>
         (target = "dir" /\ failedIn # "setup_target_dir")
    /\ target0 = "noparent" =>
         (target = "noparent" /\ pc = "failed" /\ failedIn = "setup_target_dir" /\ dest = dest0)
    /\ SetupReturned => target = "dir"

\* the call was made on a path whose parent is missing
C7_Witness ==
  /\ target0 = "noparent"
  /\ failedIn = "setup_target_dir"
  /\ game_dirs # << >>

\* ---- CopyError ----
\* the target after the first k pairs were copied in full
RECURSIVE MaterializedUpTo(_, _, _, _)
MaterializedUpTo(d, old_dirs, new_dirs, k) ==
  IF k = 0 THEN d
  ELSE CreateNewDirsStep(MaterializedUpTo(d, old_dirs, new_dirs, k - 1),
                         old_dirs[k], new_dirs[k]).dest

\* C8: when the copy of pair i fails the run is over: the directories of the
\* pairs before i hold their copies, no other directory than the i-th was
\* touched, metadata.json is as the run found it and no build command ran.
C8_CopyErrorAborts ==
  copyErr # 0 =>
    /\ pc = "failed"
    /\ failedIn = "create_new_dirs"
    /\ idx = copyErr
    /\ manifest = manifest0
    /\ files = << >>
    /\ attempted = << >>
    /\ \A n \in DestNames \ {new_game_dirs[copyErr]} :
         dest[n] = MaterializedUpTo(dest0, game_dirs, new_game_dirs, copyErr - 1)[n]

\* the second of three copies failed in a run that found a manifest: the first
\* copy is there, the third name was never made
C8_Witness ==
  /\ copyErr = 2
  /\ Len(game_dirs) = 3
  /\ manifest.exists
  /\ dest0[new_game_dirs[1]] = Absent
  /\ dest[new_game_dirs[1]] = game_dirs[1].tree
  /\ dest[new_game_dirs[3]] = Absent

\* ---- Metadata Writer ----
\* C9: a metadata.json that exists has number_of_games = len(game_names) and
\* holds exactly the name list of the latest run that wrote one.
C9_ManifestIsLatestRun ==
  /\ manifest.exists => manifest.number_of_games = Len(manifest.game_names)
  /\ manifest.exists <=> written # << >>
  /\ written # << >> => manifest.game_names = written[Len(written)]

\* a second run has overwritten a different, non-empty manifest
C9_Witness ==
  /\ Len(written) = 2
  /\ written[1] # << >>
  /\ written[2] # written[1]
  /\ manifest.game_names = written[2]

\* ---- Directory Materializer ----
\* C10: materializing the same pairs twice leaves the target as materializing
\* them once left it.
C10_TwiceIsOnce == (pc = "twice_end" /\ pass = 2) => dest = once

\* two sources with the same new name and different files were materialized
\* twice into a directory that held a file of its own
C10_Witness ==
  /\ pc = "twice_end"
  /\ pass = 2
  /\ Len(game_dirs) = 2
  /\ new_game_dirs[1] = new_game_dirs[2]
  /\ game_dirs[1].tree[Chain(1)] = "a"
  /\ game_dirs[2].tree[Chain(1)] = "b"
  /\ dest[new_game_dirs[1]][Chain(1)] = "b"
  /\ dest[new_game_dirs[1]][GoFile] = "a"

====
